---- MODULE Spec2Model ----
(***************************************************************************)
(* Model of decode_suspension_reasons.py: the decoder of suspension-reason *)
(* codes and the job that finds undecoded codes in the warehouse and       *)
(* inserts their decodings into the encodings table; of the polling loop   *)
(* of query_execution; and of the file-based variant (v1) that decodes the *)
(* 'ssr' and 'lsr' values of nested JSON bodies.                           *)
(*                                                                         *)
(* A Python value is a record with a `type` field.  A str is the sequence  *)
(* of the text pieces whose concatenation it is: an encoded string is the  *)
(* sequence of its characters, a label is one piece, and the result of     *)
(* str.join is the pieces of the items with the separator between them.    *)
(***************************************************************************)
EXTENDS Integers, Sequences, FiniteSets, Bags, TLC

\* ------------------------------------------------------------------ bounds
MaxLen == 3          \* longest text handed to the decoder
MaxObserved == 2     \* undecoded strings held by the fmt tables altogether
MaxFixtures == 2     \* fixture keys of the last 25 hours, per schema
MaxFaults == 1       \* queries the query service fails in one behaviour
MaxPolls == 3        \* polls the query service answers with QUEUED or RUNNING
MaxItems == 2        \* longest list in a JSON body

\* ----------------------------------------------------------- Python values
NoneV == [type |-> "NoneType"]
StrV(s) == [type |-> "str", val |-> s]
IntV(n) == [type |-> "int", val |-> n]
TypeErrorV == [type |-> "TypeError"]
Pending == [type |-> "pending"]

\* ------------------------------------------------------------ symbol table
SUSPENSION_REASONS ==
    [c \in {"-", "A", "B", "C", "D", "E", "F", "H", "I", "J", "K"} |->
        CASE c = "-" -> "Unknown"
          [] c = "A" -> "StalePricing"
          [] c = "B" -> "Settled"
          [] c = "C" -> "OutsideLineRange"
          [] c = "D" -> "BelowMinimumPrice"
          [] c = "E" -> "NoSelection"
          [] c = "F" -> "MatchVoided"
          [] c = "H" -> "NoMainLine"
          [] c = "I" -> "NoUnsettledLines"
          [] c = "J" -> "NoUnsuspendedLines"
          [] c = "K" -> "SettlementCorrection"]

\* dict.get(key): the entry, or None when the key is absent
DictGet(d, k) == IF k \in DOMAIN d THEN StrV(<<d[k]>>) ELSE NoneV

\* the pieces of the items with the separator between consecutive items
RECURSIVE Interleave(_, _)
Interleave(sep, items) ==
    IF Len(items) = 0 THEN <<>>
    ELSE IF Len(items) = 1 THEN items[1].val
    ELSE items[1].val \o sep \o Interleave(sep, Tail(items))

\* faulty variant of Join: the items are concatenated without the separator
JoinNoSeparator(sep, items) ==
    IF \E i \in 1..Len(items) : items[i].type # "str" THEN TypeErrorV
    ELSE StrV(Interleave(<<>>, items))

\* sep.join(items): TypeError when an item is not a str
Join(sep, items) ==
    IF \E i \in 1..Len(items) : items[i].type # "str" THEN TypeErrorV
    ELSE StrV(Interleave(sep, items))

\* faulty variant of decode_suspension_reason: no type guard, list(text) raises on
\* a value that is not iterable
DecodeNoTypeGuard(text) ==
    IF text.type # "str" THEN TypeErrorV
    ELSE LET split_text == text.val
             decoded_reasons_list ==
                 [i \in 1..Len(split_text) |-> DictGet(SUSPENSION_REASONS, split_text[i])]
         IN  Join(<<";">>, decoded_reasons_list)

decode_suspension_reason(text) ==
    IF text.type # "str" THEN NoneV
    ELSE LET split_text == text.val
             decoded_reasons_list ==
                 [i \in 1..Len(split_text) |-> DictGet(SUSPENSION_REASONS, split_text[i])]
         IN  Join(<<";">>, decoded_reasons_list)

\* ------------------------------------- symbol table and decoder of v1
\* the entry of "I" has no comma after it: its value is the concatenation of
\* the three string literals that follow the colon, and there is no key "J"
suspension_reasons ==
    [c \in {"-", "A", "B", "C", "D", "E", "F", "H", "I", "K"} |->
        CASE c = "-" -> "Unknown"
          [] c = "A" -> "Stale Pricing"
          [] c = "B" -> "Settled"
          [] c = "C" -> "OutsideLineRange"
          [] c = "D" -> "BelowMinimumPrice"
          [] c = "E" -> "NoSelection"
          [] c = "F" -> "MatchVoided"
          [] c = "H" -> "NoMainLine"
          [] c = "I" -> "NoUnsettledLinesJNoUnsuspendedLines"
          [] c = "K" -> "SettlementCorrection"]

decode_suspension_reason_v1(text) ==
    IF text.type # "str" THEN NoneV
    ELSE LET split_text == text.val
             decoded_reasons_list ==
                 [i \in 1..Len(split_text) |-> DictGet(suspension_reasons, split_text[i])]
         IN  Join(<<", ">>, decoded_reasons_list)

\* ------------------------------------------------- inputs of the decoder
InputChars == {"A", "B", "K", "-", "Z", "a", "I", "J"}

RECURSIVE StringsUpTo(_)
StringsUpTo(n) ==
    IF n = 0 THEN {<<>>}
    ELSE LET shorter == StringsUpTo(n - 1)
         IN  shorter \cup {Append(s, c) : s \in {t \in shorter : Len(t) = n - 1}, c \in InputChars}

Texts == {StrV(s) : s \in StringsUpTo(MaxLen)} \cup {NoneV, IntV(0)}


\* ------------------------------------------------------- generic helpers
Range(s) == {s[i] : i \in 1..Len(s)}

\* the enumerations of a finite set, in every order
SeqsOf(S) == {s \in [1..Cardinality(S) -> S] : \A i, j \in 1..Cardinality(S) : s[i] = s[j] => i = j}

RECURSIVE SumOver(_, _)
SumOver(f, S) ==
    IF S = {} THEN 0
    ELSE LET x == CHOOSE y \in S : TRUE IN f[x] + SumOver(f, S \ {x})

\* ------------------------------------------------------------ the warehouse
SCHEMAS == <<"baseball_stagingus", "ncaab_stagingus">>

ENCODINGS_TABLE_SCHEMAS ==
    [s \in Range(SCHEMAS) |->
        IF s = "baseball_stagingus" THEN "mlb_sit_views" ELSE "ncaab_sit_views"]

\* the rows of information_schema.columns the table query selects:
\* (table_name, table_schema) of the fmt tables with suspension columns
WarehouseTables ==
    << <<"markets_fmt", "baseball_stagingus">>,
       <<"lines_fmt", "baseball_stagingus">>,
       <<"markets_fmt", "ncaab_stagingus">> >>

TableIds == Range(WarehouseTables)

EncSchemas == {ENCODINGS_TABLE_SCHEMAS[s] : s \in Range(SCHEMAS)}

\* the encoded strings the fmt tables may hold
ObservableEncodings == {<<"A">>, <<"A", "B">>, <<"Z">>, <<"a">>, <<>>}

Runs == {"run1", "run2"}

\* the runs are alike: they are named in the order in which they start
StartsBefore(q, r) == q = "run1" /\ r = "run2"

\* str.upper on the characters of the model
UpperChar(c) == IF c = "a" THEN "A" ELSE c
Upper(s) == [i \in 1..Len(s) |-> UpperChar(s[i])]

ListV(items) == [type |-> "list", val |-> items]
\* a dict: its entries <<key, value>> in insertion order
DictV(entries) == [type |-> "dict", val |-> entries]
ExceptionV == [type |-> "Exception"]

VARIABLES
    text,         \* decoder harness: the argument
    result,       \* decoder harness: the value returned
    result_v1,    \* decoder harness: the value the decoder of v1 returned
    q_query,      \* query_execution: the query submitted
    q_state,      \* query service: the state of the query
    q_pc,         \* query_execution: its position
    q_status,     \* query_execution: the local status
    q_working,    \* query_execution: the "Working..." lines printed
    body,         \* v1: the body of the last file, as find_suspension_keys left it
    reason_combinations,  \* v1: the table shared by the calls of main
    decoded_log,  \* v1 history: the values handed to decode_suspension_reason
    f_pc,         \* v1: the position of main
    observed,     \* warehouse: table -> undecoded-candidate strings it holds
    recent,       \* warehouse: schema -> number of fixture keys of the last 25 hours
    encTable,     \* encodings schema -> bag of rows <<encoded, decoded>> of vw_suspension_reasons
    faults,       \* how many more queries the query service may fail
    job,          \* run -> the locals of __main__ and its position
    reports,      \* run -> the status reports the job reporting service received
    inserts,      \* history: run -> the INSERT queries the query service executed for it
    batch,        \* history: run -> the <<schema, encoded>> the new-encodings queries returned
    faulted,      \* history: run -> the query service failed one of its queries
    upstream,     \* history: run -> a query that supplies the batch ended FAILED or CANCELLED
    startTable    \* history: run -> encTable when the run started

decodeVars == <<text, result, result_v1>>
pollVars == <<q_query, q_state, q_pc, q_status, q_working>>
fileVars == <<body, reason_combinations, decoded_log, f_pc>>
jobVars == <<observed, recent, encTable, faults, job, reports, inserts, batch, faulted,
             upstream, startTable>>
vars == <<decodeVars, pollVars, fileVars, jobVars>>

IdleJob ==
    [pc |-> "start", TABLES_SCHEMAS |-> <<>>, fixtures_by_schema |-> <<>>,
     new_encodings_dict |-> <<>>, status |-> NoneV, t |-> 1, k |-> 1, statuses |-> <<>>]

InitJobWith(obs, rec, nfaults) ==
    /\ observed = obs
    /\ recent = rec
    /\ encTable = [s \in EncSchemas |-> EmptyBag]
    /\ faults = nfaults
    /\ job = [r \in Runs |-> IdleJob]
    /\ reports = [r \in Runs |-> <<>>]
    /\ inserts = [r \in Runs |-> <<>>]
    /\ batch = [r \in Runs |-> {}]
    /\ faulted = [r \in Runs |-> FALSE]
    /\ upstream = [r \in Runs |-> FALSE]
    /\ startTable = [r \in Runs |-> [s \in EncSchemas |-> EmptyBag]]

\* no query_execution call is modelled on its own
IdlePoll ==
    /\ q_query = "none"
    /\ q_state = "QUEUED"
    /\ q_pc = "idle"
    /\ q_status = NoneV
    /\ q_working = 0

\* main of v1 is not run
IdleFiles ==
    /\ body = <<>>
    /\ reason_combinations = <<>>
    /\ decoded_log = <<>>
    /\ f_pc = "idle"

\* no table, no fixture, no query fault
IdleJobs == InitJobWith([t \in TableIds |-> {}], [s \in Range(SCHEMAS) |-> 0], 0)

InitDecode ==
    /\ text \in Texts
    /\ result = Pending
    /\ result_v1 = Pending
    /\ IdlePoll
    /\ IdleFiles
    /\ IdleJobs

\* one call decode_suspension_reason(text)
DecodeCall ==
    /\ result = Pending
    /\ result' = decode_suspension_reason(text)
    /\ UNCHANGED <<text, result_v1, pollVars, fileVars, jobVars>>

\* one call decode_suspension_reason(text) of v1
DecodeCallV1 ==
    /\ result_v1 = Pending
    /\ result_v1' = decode_suspension_reason_v1(text)
    /\ UNCHANGED <<text, result, pollVars, fileVars, jobVars>>

NextDecode == DecodeCall \/ DecodeCallV1

SpecDecode == InitDecode /\ [][NextDecode]_vars

\* ----------------------------------------------------------------- the job
InitWith(nfaults) ==
    /\ text = NoneV
    /\ result = Pending
    /\ result_v1 = Pending
    /\ IdlePoll
    /\ IdleFiles
    /\ \E obs \in [TableIds -> SUBSET ObservableEncodings], rec \in [Range(SCHEMAS) -> 0..MaxFixtures] :
          /\ SumOver([t \in TableIds |-> Cardinality(obs[t])], TableIds) <= MaxObserved
          /\ InitJobWith(obs, rec, nfaults)

\* scheduled runs against a query service that may fail MaxFaults queries
Init == InitWith(MaxFaults)

\* runs against a query service that fails no query
InitRace == InitWith(0)

Ended == {"exited", "crashed"}

\* what the query service may answer to the next query: a terminal state,
\* or an exception out of get_query_execution
Outcomes ==
    IF faults > 0 THEN {"SUCCEEDED", "FAILED", "CANCELLED", "EXCEPTION"} ELSE {"SUCCEEDED"}

Charge(r, o) ==
    /\ faults' = (IF o = "SUCCEEDED" THEN faults ELSE faults - 1)
    /\ faulted' = [faulted EXCEPT ![r] = @ \/ o # "SUCCEEDED"]

\* the outcome of a query that supplies the batch (tables, fixture keys,
\* new encodings)
ChargeBatch(r, o) ==
    /\ Charge(r, o)
    /\ upstream' = [upstream EXCEPT ![r] = @ \/ o \in {"FAILED", "CANCELLED"}]

\* query_execution, polled to a terminal state o: the rows of the result
\* (header first) and the status; a query that did not succeed has no rows
query_execution(o, rows) ==
    [result |-> (IF o = "SUCCEEDED" THEN rows ELSE <<>>), status |-> StrV(<<o>>)]

\* s[1:]
Drop1(s) == SubSeq(s, 2, Len(s))

format_query_results(res, single_column) ==
    LET results == Drop1(res)
    IN  IF single_column THEN [i \in 1..Len(results) |-> results[i][1]] ELSE results

\* a + b for a str b: TypeError unless a is a str too
PyAdd(a, b) == IF a.type = "str" THEN StrV(a.val \o b.val) ELSE TypeErrorV

\* json.dumps accepts the value
Serializable(v) == v.type \in {"str", "list", "NoneType", "int"}

\* finish_job(start_time, status) called in the try block: report_job sends
\* the report and exit(0) ends the process.  json.dumps raises on a status
\* that is an exception object; the except clause then calls finish_job
\* with that exception, json.dumps raises again and the process dies with
\* nothing reported.
finish_job(r, j, status) ==
    IF Serializable(status)
    THEN /\ job' = [job EXCEPT ![r] = [j EXCEPT !.pc = "exited", !.status = status]]
         /\ reports' = [reports EXCEPT ![r] = Append(@, status)]
    ELSE /\ job' = [job EXCEPT ![r] = [j EXCEPT !.pc = "crashed", !.status = status]]
         /\ UNCHANGED reports

\* except Exception as e: print(e); finish_job(start_time, e)
except_clause(r, j) == finish_job(r, j, ExceptionV)

\* faulty variant of Truthy: the filter of line 300 keeps every string
TruthyAlways(x) == TRUE

\* bool(x) of a string
Truthy(x) == x # <<>>

\* faulty variant of NewEncodingsOf: the query does not leave out the decoded strings
NewEncodingsUnfiltered(tab) == observed[tab]

\* the strings of a table that the view shows undecoded: those without a
\* row in the encodings table of the table's schema
NewEncodingsOf(tab) ==
    {e \in observed[tab] :
        \A row \in BagToSet(encTable[ENCODINGS_TABLE_SCHEMAS[tab[2]]]) : row[1] # e}

\* d.setdefault(key, []).extend(items) on a dict kept as the sequence of its
\* entries in insertion order
SetDefaultExtend(d, key, items) ==
    IF \E i \in 1..Len(d) : d[i].key = key
    THEN [i \in 1..Len(d) |-> IF d[i].key = key THEN [d[i] EXCEPT !.list = @ \o items] ELSE d[i]]
    ELSE Append(d, [key |-> key, list |-> items])

\* lines 274-275: the tables with suspension-reason columns
CheckTables(r) ==
    /\ job[r].pc = "start"
    /\ \A q \in Runs : StartsBefore(q, r) => job[q].pc # "start"
    /\ \E o \in Outcomes :
          /\ ChargeBatch(r, o)
          /\ IF o = "EXCEPTION" THEN except_clause(r, job[r])
             ELSE LET q == query_execution(o, << <<"table_name", "table_schema">> >> \o WarehouseTables)
                      ts == format_query_results(q.result, FALSE)
                  IN  /\ job' = [job EXCEPT ![r] =
                               [@ EXCEPT !.TABLES_SCHEMAS = ts, !.status = q.status, !.pc = "fixtures"]]
                      /\ UNCHANGED reports
    /\ startTable' = [startTable EXCEPT ![r] = encTable]
    /\ UNCHANGED <<decodeVars, pollVars, fileVars, observed, recent, encTable, inserts, batch>>

SchemasToDo(j) == {ts[2] : ts \in Range(j.TABLES_SCHEMAS)} \ DOMAIN j.fixtures_by_schema

\* lines 282-285: one iteration of the loop over set(schemas)
GetFixtures(r) ==
    /\ job[r].pc = "fixtures"
    /\ \E schema \in SchemasToDo(job[r]), o \in Outcomes :
          /\ ChargeBatch(r, o)
          /\ IF o = "EXCEPTION" THEN except_clause(r, job[r])
             ELSE LET q == query_execution(o, << <<"FixtureKey">> >> \o [i \in 1..recent[schema] |-> <<i>>])
                      fixtures == format_query_results(q.result, TRUE)
                  IN  /\ job' = [job EXCEPT ![r] =
                               [@ EXCEPT !.fixtures_by_schema = @ @@ (schema :> fixtures),
                                         !.status = q.status]]
                      /\ UNCHANGED reports
    /\ UNCHANGED <<decodeVars, pollVars, fileVars, observed, recent, encTable, inserts, batch, startTable>>

\* lines 287-290: end the job when no schema has new fixtures
NoNewFixturesCheck(r) ==
    /\ job[r].pc = "fixtures"
    /\ SchemasToDo(job[r]) = {}
    /\ LET fbs == job[r].fixtures_by_schema
       IN  IF ~(\E s \in DOMAIN fbs : Len(fbs[s]) > 1)
           THEN finish_job(r, job[r], PyAdd(job[r].status, StrV(<<" - No new fixtures">>)))
           ELSE /\ job' = [job EXCEPT ![r] = [@ EXCEPT !.pc = "encodings", !.t = 1]]
                /\ UNCHANGED reports
    /\ UNCHANGED <<decodeVars, pollVars, fileVars, observed, recent, encTable, faults, inserts, batch, faulted,
                   upstream, startTable>>

\* faulty variant of ZipPairs: the decoded strings are paired in reverse order
ZipReversed(encoded, decoded) ==
    [i \in 1..Len(encoded) |-> <<encoded[i], decoded[Len(encoded) + 1 - i].val>>]

\* line 307: list(zip(encoded_suspension_reasons, decoded_suspension_reasons))
ZipPairs(encoded, decoded) ==
    [i \in 1..Len(encoded) |-> <<encoded[i], decoded[i].val>>]

\* lines 295-309: one iteration of the loop over TABLES_SCHEMAS
CheckEncodings(r) ==
    /\ job[r].pc = "encodings"
    /\ job[r].t <= Len(job[r].TABLES_SCHEMAS)
    /\ LET tab == job[r].TABLES_SCHEMAS[job[r].t]
           schema == tab[2]
       IN  \E o \in Outcomes, order \in SeqsOf(NewEncodingsOf(tab)) :
              /\ ChargeBatch(r, o)
              /\ IF o = "EXCEPTION" THEN except_clause(r, job[r]) /\ UNCHANGED batch
                 ELSE LET q == query_execution(o, << <<"SelectionSuspensionReasons">> >> \o
                                                  [i \in 1..Len(order) |-> <<order[i]>>])
                          encoded_suspension_reasons ==
                              SelectSeq(format_query_results(q.result, TRUE), Truthy)
                          decoded_suspension_reasons ==
                              [i \in 1..Len(encoded_suspension_reasons) |->
                                  decode_suspension_reason(StrV(Upper(encoded_suspension_reasons[i])))]
                          suspension_reason_encodings ==
                              ZipPairs(encoded_suspension_reasons, decoded_suspension_reasons)
                          j == [job[r] EXCEPT !.status = q.status, !.t = @ + 1]
                      IN  /\ batch' = [batch EXCEPT ![r] =
                                   @ \cup {<<schema, e>> : e \in Range(encoded_suspension_reasons)}]
                          /\ IF Len(encoded_suspension_reasons) < 1
                             THEN job' = [job EXCEPT ![r] = j] /\ UNCHANGED reports
                             ELSE IF \E i \in 1..Len(decoded_suspension_reasons) :
                                        decoded_suspension_reasons[i].type = "TypeError"
                             THEN except_clause(r, j)
                             ELSE /\ job' = [job EXCEPT ![r] =
                                        [j EXCEPT !.new_encodings_dict =
                                            SetDefaultExtend(@, schema, suspension_reason_encodings)]]
                                  /\ UNCHANGED reports
    /\ UNCHANGED <<decodeVars, pollVars, fileVars, observed, recent, encTable, inserts, startTable>>

\* lines 312-315: end the job when no schema has new encodings
NoNewEncodingsCheck(r) ==
    /\ job[r].pc = "encodings"
    /\ job[r].t > Len(job[r].TABLES_SCHEMAS)
    /\ LET d == job[r].new_encodings_dict
       IN  IF ~(\E i \in 1..Len(d) : Len(d[i].list) > 1)
           THEN finish_job(r, job[r], PyAdd(job[r].status, StrV(<<" - No new encodings">>)))
           ELSE /\ job' = [job EXCEPT ![r] = [@ EXCEPT !.pc = "insert", !.k = 1, !.statuses = <<>>]]
                /\ UNCHANGED reports
    /\ UNCHANGED <<decodeVars, pollVars, fileVars, observed, recent, encTable, faults, inserts, batch, faulted,
                   upstream, startTable>>

\* faulty variant of InsertLoopContinues: the loop stops at an insertion that did
\* not succeed
InsertLoopStopsOnFailure(statuses, encodings) ==
    /\ Len(statuses) < Len(encodings)
    /\ statuses[Len(statuses)] = StrV(<<"SUCCEEDED">>)

\* insert_into_encodings_table, line 211: the loop goes on to the next pair
InsertLoopContinues(statuses, encodings) == Len(statuses) < Len(encodings)

\* insert_into_encodings_table, lines 221-224: the value returned
InsertReturn(statuses) ==
    IF \A i \in 1..Len(statuses) : statuses[i] = StrV(<<"SUCCEEDED">>)
    THEN StrV(<<"SUCCEEDED">>)
    ELSE ListV(statuses)

\* lines 317-322 with insert_into_encodings_table: the INSERT of one pair of
\* the list of key k; after the last pair of the list the function returns
\* and the loop of __main__ goes to the next key (the test of line 320 is
\* false for every value returned and its branch only continues the loop)
InsertPair(r) ==
    /\ job[r].pc = "insert"
    /\ LET entry == job[r].new_encodings_dict[job[r].k]
           pair == entry.list[Len(job[r].statuses) + 1]
           target == ENCODINGS_TABLE_SCHEMAS[entry.key]
       IN  \E o \in Outcomes :
              /\ Charge(r, o)
              /\ inserts' = [inserts EXCEPT ![r] =
                                Append(@, [k |-> job[r].k, schema |-> target, row |-> pair, outcome |-> o])]
              /\ encTable' = (IF o = "SUCCEEDED"
                              THEN [encTable EXCEPT ![target] = @ (+) SetToBag({pair})]
                              ELSE encTable)
              /\ IF o = "EXCEPTION" THEN except_clause(r, job[r])
                 ELSE LET q == query_execution(o, <<>>)
                          statuses == Append(job[r].statuses, q.status)
                      IN  /\ UNCHANGED reports
                          /\ IF InsertLoopContinues(statuses, entry.list)
                             THEN job' = [job EXCEPT ![r] = [@ EXCEPT !.statuses = statuses]]
                             ELSE job' = [job EXCEPT ![r] =
                                      [@ EXCEPT !.status = InsertReturn(statuses),
                                                !.statuses = <<>>,
                                                !.k = @ + 1,
                                                !.pc = IF job[r].k + 1 > Len(job[r].new_encodings_dict)
                                                       THEN "added" ELSE "insert"]]
    /\ UNCHANGED <<decodeVars, pollVars, fileVars, observed, recent, batch, upstream, startTable>>

\* lines 324-327: the final status and the end of the job
EncodingsAdded(r) ==
    /\ job[r].pc = "added"
    /\ LET status == PyAdd(job[r].status, StrV(<<" - Encodings added : ", "{new_encodings_dict}">>))
       IN  IF status.type = "TypeError"
           THEN except_clause(r, job[r])
           ELSE finish_job(r, job[r], status)
    /\ UNCHANGED <<decodeVars, pollVars, fileVars, observed, recent, encTable, faults, inserts, batch, faulted,
                   upstream, startTable>>

\* the scheduler starts a run when no other run is under way
StartScheduled(r) ==
    /\ \A q \in Runs \ {r} : job[q].pc \in Ended \cup {"start"}
    /\ CheckTables(r)

Next ==
    \E r \in Runs :
        \/ StartScheduled(r)
        \/ GetFixtures(r)
        \/ NoNewFixturesCheck(r)
        \/ CheckEncodings(r)
        \/ NoNewEncodingsCheck(r)
        \/ InsertPair(r)
        \/ EncodingsAdded(r)

Spec == Init /\ [][Next]_vars

\* two runs started by hand or by overlapping schedules may interleave
NextRace ==
    \E r \in Runs :
        \/ CheckTables(r)
        \/ GetFixtures(r)
        \/ NoNewFixturesCheck(r)
        \/ CheckEncodings(r)
        \/ NoNewEncodingsCheck(r)
        \/ InsertPair(r)
        \/ EncodingsAdded(r)

SpecRace == InitRace /\ [][NextRace]_vars

\* ------------------------------------------------- the polling loop
\* the queries the job submits: table discovery, fixture keys, new
\* encodings, INSERT
Queries == {"tables", "fixtures", "encodings", "insert"}

\* after start_query_execution (lines 52-60): the query is queued, nothing
\* polled yet
InitPoll ==
    /\ q_query \in Queries
    /\ q_state = "QUEUED"
    /\ q_pc = "poll"
    /\ q_status = NoneV
    /\ q_working = 0
    /\ text = NoneV
    /\ result = Pending
    /\ result_v1 = Pending
    /\ IdleFiles
    /\ IdleJobs

\* the query service moves the query on: a queued query starts running or
\* ends without running, a running query ends
ServiceAdvance ==
    /\ \/ /\ q_state = "QUEUED"
          /\ q_state' \in {"RUNNING", "FAILED", "CANCELLED"}
       \/ /\ q_state = "RUNNING"
          /\ q_state' \in {"SUCCEEDED", "FAILED", "CANCELLED"}
    /\ UNCHANGED <<q_query, q_pc, q_status, q_working, decodeVars, fileVars, jobVars>>

\* faulty variant of LeavesLoop: the slice starts one place early
LeavesLoopOnRunning(status) ==
    status \in {"RUNNING", "SUCCEEDED", "FAILED", "CANCELLED"}

\* line 67: status in possible_statuses[2:]
LeavesLoop(status) == status \in {"SUCCEEDED", "FAILED", "CANCELLED"}

\* lines 64-69: get_query_execution answers with the state of the query;
\* the loop is left on a terminal state, else "Working..." is printed
Poll ==
    /\ q_pc = "poll"
    /\ q_working < MaxPolls \/ LeavesLoop(q_state)
    /\ q_status' = StrV(<<q_state>>)
    /\ IF LeavesLoop(q_state)
       THEN q_pc' = "results" /\ UNCHANGED q_working
       ELSE q_pc' = "sleep" /\ q_working' = q_working + 1
    /\ UNCHANGED <<q_query, q_state, decodeVars, fileVars, jobVars>>

\* lines 72-74: get_query_execution raises; the handler sets the status and
\* raises a str, which is a TypeError that leaves the function
PollRaises ==
    /\ q_pc = "poll"
    /\ q_status' = StrV(<<"EXCEPTION OCCURED: ", "{e}">>)
    /\ q_pc' = "raised"
    /\ UNCHANGED <<q_query, q_state, q_working, decodeVars, fileVars, jobVars>>

\* line 70: time.sleep(3) returns and the loop polls again
Sleep ==
    /\ q_pc = "sleep"
    /\ q_pc' = "poll"
    /\ UNCHANGED <<q_query, q_state, q_status, q_working, decodeVars, fileVars, jobVars>>

\* lines 76-83: the results are fetched and returned with the status
GetResults ==
    /\ q_pc = "results"
    /\ q_pc' = "returned"
    /\ UNCHANGED <<q_query, q_state, q_status, q_working, decodeVars, fileVars, jobVars>>

NextPoll == ServiceAdvance \/ Poll \/ PollRaises \/ Sleep \/ GetResults

\* the process keeps running its loop, and the query service ends every
\* query
SpecPoll ==
    /\ InitPoll
    /\ [][NextPoll]_vars
    /\ WF_vars(Poll \/ Sleep \/ GetResults)
    /\ WF_vars(ServiceAdvance)

\* ------------------------------------------- the file-based variant (v1)
\* the 'ssr' and 'lsr' values of the files
FileCodes == {<<"A">>, <<"I", "A">>, <<"J">>}

\* the innermost objects of a body
LeafObjects ==
    {<<>>,
     << <<"ssr", StrV(<<"A">>)>> >>,
     << <<"ssr", StrV(<<"J">>)>> >>,
     << <<"lsr", StrV(<<"A">>)>> >>,
     << <<"lsr", StrV(<<"I", "A">>)>> >>,
     << <<"ssr", StrV(<<"A">>)>>, <<"lsr", StrV(<<"A">>)>> >>,
     << <<"ssr", IntV(0)>> >>}

RECURSIVE LeafLists(_)
LeafLists(n) ==
    IF n = 0 THEN {<<>>}
    ELSE LET shorter == LeafLists(n - 1)
         IN  shorter \cup {Append(l, o) : l \in {m \in shorter : Len(m) = n - 1}, o \in LeafObjects}

\* SAMPLE_DATA["body"] of a file: an object holding a list of objects, or an
\* object with a value of its own holding another object
Bodies ==
    {<< <<"p", ListV(items)>> >> : items \in LeafLists(MaxItems)}
    \cup {<< <<"ssr", StrV(c)>>, <<"m", DictV(o)>> >> : c \in FileCodes, o \in LeafObjects}

\* d[key] = value on the entries of a dict
SetItem(entries, key, value) ==
    IF \E i \in 1..Len(entries) : entries[i][1] = key
    THEN [i \in 1..Len(entries) |-> IF entries[i][1] = key THEN <<key, value>> ELSE entries[i]]
    ELSE Append(entries, <<key, value>>)

\* lines 37-41 (45-49): the decoded string of value, from reason_combinations
\* or, on KeyError, from decode_suspension_reason, which is then recorded;
\* an exception other than KeyError leaves the function
Lookup(value, st) ==
    IF value \in DOMAIN st.rc
    THEN [value |-> st.rc[value], st |-> st]
    ELSE LET decoded == decode_suspension_reason_v1(StrV(value))
             log == Append(st.log, value)
         IN  IF decoded.type = "TypeError"
             THEN [value |-> decoded, st |-> [st EXCEPT !.log = log, !.raised = TRUE]]
             ELSE [value |-> decoded,
                   st |-> [st EXCEPT !.log = log, !.rc = (value :> decoded) @@ @]]

\* find_suspension_keys(body, reason_combinations): FindItems goes through
\* the snapshot list(body.items()) from its i-th entry on, cur being the
\* entries of body as updated so far; FindList goes through a list value
RECURSIVE find_suspension_keys(_, _)
RECURSIVE FindItems(_, _, _, _)
RECURSIVE FindList(_, _, _)
find_suspension_keys(entries, st) == FindItems(entries, 1, entries, st)

FindItems(items, i, cur, st) ==
    IF st.raised \/ i > Len(items) THEN [body |-> cur, st |-> st]
    ELSE LET key == items[i][1]
             value == items[i][2]
         IN  IF value.type = "str"
             THEN IF key \in {"ssr", "lsr"}
                  THEN LET found == Lookup(value.val, st)
                       IN  IF found.st.raised THEN [body |-> cur, st |-> found.st]
                           ELSE FindItems(items, i + 1,
                                          SetItem(cur, IF key = "ssr" THEN "dssr" ELSE "dlsr",
                                                  found.value),
                                          found.st)
                  ELSE FindItems(items, i + 1, cur, st)
             ELSE IF value.type = "list"
             THEN LET done == FindList(value.val, 1, st)
                  IN  FindItems(items, i + 1, SetItem(cur, key, ListV(done.list)), done.st)
             ELSE IF value.type = "dict"
             THEN LET done == find_suspension_keys(value.val, st)
                  IN  FindItems(items, i + 1, SetItem(cur, key, DictV(done.body)), done.st)
             ELSE FindItems(items, i + 1, cur, st)

FindList(list, i, st) ==
    IF st.raised \/ i > Len(list) THEN [list |-> list, st |-> st]
    ELSE LET done == find_suspension_keys(list[i], st)
         IN  FindList([list EXCEPT ![i] = done.body], i + 1, done.st)

\* main of v1, line 62
InitFiles ==
    /\ body = <<>>
    /\ reason_combinations = <<>>
    /\ decoded_log = <<>>
    /\ f_pc = "files"
    /\ text = NoneV
    /\ result = Pending
    /\ result_v1 = Pending
    /\ IdlePoll
    /\ IdleJobs

\* lines 65-82: the next file is read and its body handed to
\* find_suspension_keys; an exception out of it ends the process
ProcessFile ==
    /\ f_pc = "files"
    /\ \E b \in Bodies :
          LET done == find_suspension_keys(b, [rc |-> reason_combinations,
                                               log |-> decoded_log, raised |-> FALSE])
          IN  /\ body' = done.body
              /\ reason_combinations' = done.st.rc
              /\ decoded_log' = done.st.log
              /\ f_pc' = (IF done.st.raised THEN "crashed" ELSE "files")
    /\ UNCHANGED <<decodeVars, pollVars, jobVars>>

NextFiles == ProcessFile

SpecFiles == InitFiles /\ [][NextFiles]_vars

\* ------------------------------------------------------------- properties
AllKnown(s) == \A i \in 1..Len(s) : s[i] \in DOMAIN SUSPENSION_REASONS

\* C1: for a string of known symbols the decoder returns exactly len(s)
\* labels joined by ';', the i-th label being the table entry of the i-th
\* character.
C1_KnownSymbolsDecodeInOrder ==
    (result # Pending /\ text.type = "str" /\ AllKnown(text.val)) =>
        /\ result.type = "str"
        /\ Len(result.val) = (IF Len(text.val) = 0 THEN 0 ELSE 2 * Len(text.val) - 1)
        /\ \A i \in 1..Len(text.val) :
              /\ result.val[2 * i - 1] = SUSPENSION_REASONS[text.val[i]]
              /\ i > 1 => result.val[2 * i - 2] = ";"

C1_Witness ==
    /\ result # Pending
    /\ text = StrV(<<"A", "B", "K">>)
    /\ result = StrV(<<"StalePricing", ";", "Settled", ";", "SettlementCorrection">>)

\* C2 (as claimed): a string with an unmapped character decodes, without an
\* exception, to the labels with 'Unknown' at each unmapped position.
C2_UnknownSymbolPlaceholder ==
    (result # Pending /\ text.type = "str" /\ ~AllKnown(text.val)) =>
        /\ result.type = "str"
        /\ Len(result.val) = 2 * Len(text.val) - 1
        /\ \A i \in 1..Len(text.val) :
              /\ result.val[2 * i - 1] =
                    (IF text.val[i] \in DOMAIN SUSPENSION_REASONS
                     THEN SUSPENSION_REASONS[text.val[i]] ELSE "Unknown")
              /\ i > 1 => result.val[2 * i - 2] = ";"

\* C3: the empty string and a non-string value give None or the empty
\* string, never an exception.
C3_NoDataNoDecode ==
    (result # Pending /\ (text.type # "str" \/ text = StrV(<<>>))) =>
        result \in {NoneV, StrV(<<>>)}

C3_Witness ==
    /\ text = NoneV
    /\ result = NoneV
\* ----------------------------------------------- properties of the job
\* the rows of an encodings table stored for one encoded string
RowCount(bag, e) ==
    LET rows == {row \in BagToSet(bag) : row[1] = e}
    IN  SumOver([row \in rows |-> CopiesIn(row, bag)], rows)

HasRow(schema, e) ==
    \E row \in BagToSet(encTable[ENCODINGS_TABLE_SCHEMAS[schema]]) : row[1] = e

\* no string is held by two tables of one schema
NoSharedString ==
    \A t1, t2 \in TableIds :
        (t1 # t2 /\ t1[2] = t2[2]) => observed[t1] \cap observed[t2] = {}

\* C4 (as claimed): under any interleaving of overlapping runs that discover
\* the same new string, the encodings table stores at most one row per
\* encoded string.
C4_AtMostOneRowPerEncoding ==
    NoSharedString =>
        \A s \in EncSchemas, e \in ObservableEncodings : RowCount(encTable[s], e) <= 1

\* C5 (as claimed): when a run in which every query succeeded ends, every
\* string of known symbols that its queries returned as new is in the
\* encodings table.
C5_NewStringsInserted ==
    \A r \in Runs :
        (job[r].pc = "exited" /\ ~faulted[r]) =>
            \A be \in batch[r] : AllKnown(be[2]) => HasRow(be[1], be[2])

\* C6: a run that follows a run whose queries and insertions all succeeded,
\* over the same warehouse contents, issues no insertion and leaves the
\* encodings table as it found it.  The first run has ended normally, or
\* else the second has gathered the same strings (none of its queries
\* failed).
C6_SecondRunInsertsNothing ==
    (/\ job["run2"].pc # "start"
     /\ ~faulted["run1"]
     /\ job["run1"].pc = "exited" \/ ~faulted["run2"]) =>
        /\ inserts["run2"] = <<>>
        /\ encTable = startTable["run2"]

C6_Witness ==
    /\ job["run2"].pc = "exited"
    /\ ~faulted["run1"]
    /\ ~faulted["run2"]
    /\ Len(inserts["run1"]) >= 2
    /\ \A i \in 1..Len(inserts["run1"]) : inserts["run1"][i].outcome = "SUCCEEDED"
    /\ \E t \in TableIds : Cardinality(observed[t]) >= 2

\* C7 (as claimed): a run inserts an encoded string once, however often the
\* string occurs among the strings it gathered.
C7_InsertedOncePerRun ==
    \A r \in Runs : \A i, j \in 1..Len(inserts[r]) :
        (i < j /\ inserts[r][i].schema = inserts[r][j].schema) =>
            inserts[r][i].row[1] # inserts[r][j].row[1]

Malformed(e) == ~AllKnown(Upper(e))

\* C8 (as claimed): a string with a character absent from the symbol table
\* does not abort the batch: the valid strings gathered with it are in the
\* encodings table when the run is over.
C8_MalformedDoesNotAbort ==
    \A r \in Runs :
        (job[r].pc \in Ended /\ ~faulted[r] /\ \E be \in batch[r] : Malformed(be[2])) =>
            \A be \in batch[r] : AllKnown(be[2]) => HasRow(be[1], be[2])

\* the INSERT queries of the c-th call of insert_into_encodings_table of a run
CallLog(r, c) ==
    LET OfCall(x) == x.k = c IN SelectSeq(inserts[r], OfCall)

PartialFailure(r) ==
    /\ \E i \in 1..Len(inserts[r]) : inserts[r][i].outcome = "SUCCEEDED"
    /\ \E i \in 1..Len(inserts[r]) : inserts[r][i].outcome \in {"FAILED", "CANCELLED"}

\* C10 (as claimed): a run in which some insertions succeed and others fail
\* raises no exception: it ends normally with one report whose status tells
\* the failure from a run whose insertions all succeeded.
C10_PartialFailureReported ==
    \A r \in Runs :
        (job[r].pc \in Ended /\ PartialFailure(r)) =>
            /\ job[r].pc = "exited"
            /\ Len(reports[r]) = 1
            /\ reports[r][1].val[1] # "SUCCEEDED"

\* C11 (as claimed): a run for which the query service reported FAILED or
\* CANCELLED for the table, fixture-key or new-encodings query ends with
\* one report whose status is that failure.
C11_UpstreamFailureReportedAsFailure ==
    \A r \in Runs :
        (job[r].pc \in Ended /\ upstream[r]) =>
            /\ job[r].pc = "exited"
            /\ Len(reports[r]) = 1
            /\ reports[r][1].val[1] \in {"FAILED", "CANCELLED"}

\* C12: an empty encoded string is never decoded nor inserted: it is in no
\* filtered query result, in no list of pairs and in no INSERT; and a run
\* whose queries all succeeded and returned nothing but empty strings
\* decodes nothing, inserts nothing and ends normally with one report whose
\* status is SUCCEEDED.
C12_EmptyStringsAreNoData ==
    \A r \in Runs :
        LET d == job[r].new_encodings_dict
        IN  /\ \A be \in batch[r] : be[2] # <<>>
            /\ \A i \in 1..Len(d) : \A p \in 1..Len(d[i].list) : d[i].list[p][1] # <<>>
            /\ \A i \in 1..Len(inserts[r]) : inserts[r][i].row[1] # <<>>
            /\ (job[r].pc \in Ended /\ ~faulted[r] /\ batch[r] = {}) =>
                  /\ job[r].pc = "exited"
                  /\ d = <<>>
                  /\ inserts[r] = <<>>
                  /\ Len(reports[r]) = 1
                  /\ reports[r][1].val[1] = "SUCCEEDED"

\* a run that went through the tables, met an empty string in one of them
\* and nothing else, and ended
C12_Witness ==
    \E r \in Runs :
        /\ job[r].pc = "exited"
        /\ job[r].t > Len(job[r].TABLES_SCHEMAS)
        /\ job[r].t > 1
        /\ ~faulted[r]
        /\ batch[r] = {}
        /\ \E tab \in TableIds : <<>> \in observed[tab]
        /\ reports[r] = <<StrV(<<"SUCCEEDED", " - No new encodings">>)>>

\* C13 (as claimed): every row of an encodings table holds the decoding of
\* its encoded string exactly as stored.
C13_StoredDecodesAsStored ==
    \A s \in EncSchemas : \A row \in BagToSet(encTable[s]) :
        StrV(row[2]) = decode_suspension_reason(StrV(row[1]))

\* C13 (amended): every row of an encodings table holds the decoding of the
\* upper-cased form of its encoded string, and two rows with the same
\* encoded string hold the same decoded string.
C13_StoredDecodesUpperCased ==
    /\ \A s \in EncSchemas : \A row \in BagToSet(encTable[s]) :
          StrV(row[2]) = decode_suspension_reason(StrV(Upper(row[1])))
    /\ \A s1 \in EncSchemas, s2 \in EncSchemas :
          \A row1 \in BagToSet(encTable[s1]), row2 \in BagToSet(encTable[s2]) :
              row1[1] = row2[1] => row1[2] = row2[2]

\* a lower-case string and a longer one were stored
C13_Witness ==
    \E s \in EncSchemas :
        /\ \E row \in BagToSet(encTable[s]) : row[1] = <<"a">>
        /\ \E row \in BagToSet(encTable[s]) : Len(row[1]) > 1

\* C15 (as claimed): a run never delivers two reports, and a run that has
\* ended, on whatever path, has delivered exactly one.
C15_ExactlyOneReport ==
    \A r \in Runs :
        /\ Len(reports[r]) <= 1
        /\ job[r].pc \in Ended => Len(reports[r]) = 1

\* ------------------------------------- properties of the polling loop
\* C14: query_execution sleeps and polls again only after an answer QUEUED
\* or RUNNING; it leaves the loop and returns only with the status
\* SUCCEEDED, FAILED or CANCELLED, which is the state the query then has;
\* and when the query service ends every query, the call ends: it returns,
\* unless a poll raised.
C14_PollsUntilTerminal ==
    /\ [](q_pc = "sleep" => q_status \in {StrV(<<"QUEUED">>), StrV(<<"RUNNING">>)})
    /\ [](q_pc \in {"results", "returned"} =>
            /\ q_status \in {StrV(<<"SUCCEEDED">>), StrV(<<"FAILED">>), StrV(<<"CANCELLED">>)}
            /\ q_status = StrV(<<q_state>>))
    /\ <>(q_pc \in {"returned", "raised"})

\* the call returned after polls answered with QUEUED and with RUNNING
C14_Witness ==
    /\ q_pc = "returned"
    /\ q_working = MaxPolls
    /\ q_status = StrV(<<"SUCCEEDED">>)

\* ----------------------------------- properties of the file-based variant
\* d[key], or a value of no type when the key is absent
Entry(entries, key) ==
    IF \E i \in 1..Len(entries) : entries[i][1] = key
    THEN entries[CHOOSE i \in 1..Len(entries) : entries[i][1] = key][2]
    ELSE [type |-> "absent"]

\* every object of the tree with a string 'ssr' ('lsr') holds its decoding
\* under 'dssr' ('dlsr')
RECURSIVE Decorated(_)
Decorated(entries) ==
    \A i \in 1..Len(entries) :
        LET key == entries[i][1]
            value == entries[i][2]
        IN  /\ (key = "ssr" /\ value.type = "str") =>
                  Entry(entries, "dssr") = decode_suspension_reason_v1(value)
            /\ (key = "lsr" /\ value.type = "str") =>
                  Entry(entries, "dlsr") = decode_suspension_reason_v1(value)
            /\ value.type = "dict" => Decorated(value.val)
            /\ value.type = "list" => \A j \in 1..Len(value.val) : Decorated(value.val[j])

\* C16 (as claimed): after any sequence of find_suspension_keys calls on one
\* reason_combinations table, every key of the table maps to its decoding,
\* every value once decoded is still in the table, no value was decoded
\* twice, and every object of the body last visited that has a string 'ssr'
\* ('lsr') holds its decoding under 'dssr' ('dlsr').
C16_SharedTableDecodesOnce ==
    /\ \A v \in DOMAIN reason_combinations :
          reason_combinations[v] = decode_suspension_reason_v1(StrV(v))
    /\ \A i \in 1..Len(decoded_log) : decoded_log[i] \in DOMAIN reason_combinations
    /\ \A i, j \in 1..Len(decoded_log) : decoded_log[i] = decoded_log[j] => i = j
    /\ f_pc # "crashed"
    /\ Decorated(body)

\* ------------------------------------------ properties of the variants
ElevenSymbols == {"-", "A", "B", "C", "D", "E", "F", "H", "I", "J", "K"}

OneLabelPerCharacter(t, res) ==
    /\ res.type = "str"
    /\ Len(res.val) = (IF Len(t.val) = 0 THEN 0 ELSE 2 * Len(t.val) - 1)

\* C17 (as claimed): for a string over the eleven symbols the decoder of
\* the main script and the decoder of v1 both return one label per
\* character, and for any string the two decoders agree on whether all its
\* characters are mapped.
C17_VariantsMapElevenSymbols ==
    /\ (text.type = "str" /\ \A i \in 1..Len(text.val) : text.val[i] \in ElevenSymbols) =>
          /\ result # Pending => OneLabelPerCharacter(text, result)
          /\ result_v1 # Pending => OneLabelPerCharacter(text, result_v1)
    /\ (text.type = "str" /\ result # Pending /\ result_v1 # Pending) =>
          (result.type = "TypeError" <=> result_v1.type = "TypeError")
====
